---- MODULE Spec2Model ----
(***************************************************************************)
(* A model of tools/validate-commit.py: the author-name, author-email and  *)
(* commit-message validators, the subject normaliser, and main() with the  *)
(* exception handlers of the __main__ block.                               *)
(*                                                                         *)
(* A Python str is modelled as a sequence of one-character strings, so     *)
(* that lower(), strip(), split(), splitlines(), startswith(), endswith(), *)
(* `in' and slicing are computed character by character.                   *)
(***************************************************************************)
EXTENDS Integers, Sequences, FiniteSets, TLC

VARIABLES
    \* ---- the process running main() -------------------------------------
    pc,             \* position of the process in main() / the __main__ block
    direct,         \* __file__.endswith('.py'): invoked directly, not as a hook
    commit,         \* the commit record git was asked about (history variable)
    query,          \* "pending", "ok" or "failed": outcome of `git show`
    returncode,     \* CalledProcessError.returncode of a failed `git show`
    output,         \* stdout of `git show`
    abbrev, author_name, author_email, body, subject,   \* locals of main()
    exit_code,      \* local exit_code of main()
    rets,           \* what each validator call produced ("none" before the call)
    stdout,         \* diagnostics printed so far (stdout and stderr), in order
    normalizer,     \* TRUE once `git stripspace` has been spawned
    term,           \* "running", "exit" (sys.exit), "traceback" (uncaught
                    \* exception) or "signal" (killed by the re-raised SIGINT)
    status,         \* the process exit status once term # "running"
    interrupted,    \* a KeyboardInterrupt was raised (history variable)
    \* ---- a single call of one of the pure functions ---------------------
    upc,            \* "call" before the function is applied, "returned" after
    arg,            \* the argument string
    wrapped,        \* how arg was composed for extract_subject: [X, n, t]
    gs,             \* outcome of `git stripspace` handed to verify_body
    result          \* what the function returned

mainVars == <<pc, direct, commit, query, returncode, output, abbrev, author_name,
              author_email, body, subject, exit_code, rets, stdout, normalizer,
              term, status, interrupted>>
unitVars == <<upc, arg, wrapped, gs, result>>
vars == <<mainVars, unitVars>>

---------------------------------------------------------------------------
(* Python str primitives, on sequences of characters.                      *)

UpperCase == <<"A","B","C","D","E","F","G","H","I","J","K","L","M",
               "N","O","P","Q","R","S","T","U","V","W","X","Y","Z">>
LowerCase == <<"a","b","c","d","e","f","g","h","i","j","k","l","m",
               "n","o","p","q","r","s","t","u","v","w","x","y","z">>
Digits == {"0","1","2","3","4","5","6","7","8","9"}

\* str.isspace() of one character, for the characters of the model's alphabet.
IsSpace(c) == c \in {" ", "\t", "\n", "\r", "\f"}

\* A line boundary of str.splitlines(), for the characters of the model's alphabet.
IsLineBreak(c) == c \in {"\n", "\r", "\f"}

Range(s) == {s[i] : i \in 1..Len(s)}

Last(s) == s[Len(s)]

LowerChar(c) ==
    IF \E i \in 1..Len(UpperCase) : UpperCase[i] = c
    THEN LowerCase[CHOOSE i \in 1..Len(UpperCase) : UpperCase[i] = c]
    ELSE c

\* str.lower()
lower(s) == [i \in 1..Len(s) |-> LowerChar(s[i])]

\* s[m:n] with 0 <= m, in Python's 0-based half-open convention.
Slice(s, m, n) == IF n <= m THEN <<>> ELSE SubSeq(s, m + 1, n)

\* str.strip(): drop leading and trailing whitespace.
strip(s) ==
    IF \A i \in 1..Len(s) : IsSpace(s[i]) THEN <<>>
    ELSE LET first == CHOOSE i \in 1..Len(s) :
                         ~IsSpace(s[i]) /\ \A j \in 1..(i-1) : IsSpace(s[j])
             last  == CHOOSE i \in 1..Len(s) :
                         ~IsSpace(s[i]) /\ \A j \in (i+1)..Len(s) : IsSpace(s[j])
         IN SubSeq(s, first, last)

\* str.rstrip(chars): drop the trailing run of characters of the set chars.
rstrip(s, chars) ==
    IF \A i \in 1..Len(s) : s[i] \in chars THEN <<>>
    ELSE LET last == CHOOSE i \in 1..Len(s) :
                         s[i] \notin chars /\ \A j \in (i+1)..Len(s) : s[j] \in chars
         IN SubSeq(s, 1, last)

startswith(s, p) == Len(p) <= Len(s) /\ SubSeq(s, 1, Len(p)) = p

endswith(s, p) == Len(p) <= Len(s) /\ SubSeq(s, Len(s) - Len(p) + 1, Len(s)) = p

\* `sub in s'
contains(s, sub) ==
    \E i \in 0..(Len(s) - Len(sub)) : SubSeq(s, i + 1, i + Len(sub)) = sub

\* str.isdigit(): non-empty and every character a digit.
isdigit(s) == Len(s) > 0 /\ \A i \in 1..Len(s) : s[i] \in Digits

\* str.split(sep, maxsplit) for a one-character sep; maxsplit < 0 is no limit.
RECURSIVE split(_, _, _)
split(s, sep, maxsplit) ==
    IF maxsplit = 0 \/ \A i \in 1..Len(s) : s[i] # sep THEN <<s>>
    ELSE LET i == CHOOSE k \in 1..Len(s) :
                      s[k] = sep /\ \A j \in 1..(k-1) : s[j] # sep
         IN <<SubSeq(s, 1, i - 1)>>
                \o split(SubSeq(s, i + 1, Len(s)), sep, maxsplit - 1)

\* str.splitlines(True): the lines with their line ends kept; "\r\n" is one end.
RECURSIVE splitlines(_)
splitlines(s) ==
    IF s = <<>> THEN <<>>
    ELSE IF \A i \in 1..Len(s) : ~IsLineBreak(s[i]) THEN <<s>>
    ELSE LET i == CHOOSE k \in 1..Len(s) :
                      IsLineBreak(s[k]) /\ \A j \in 1..(k-1) : ~IsLineBreak(s[j])
             e == IF s[i] = "\r" /\ i < Len(s) /\ s[i+1] = "\n" THEN i + 1 ELSE i
         IN <<SubSeq(s, 1, e)>> \o splitlines(SubSeq(s, e + 1, Len(s)))

\* All concatenations of at most n strings of the set pieces.
RECURSIVE Concats(_, _)
Concats(pieces, n) ==
    IF n = 0 THEN {<<>>}
    ELSE LET shorter == Concats(pieces, n - 1)
         IN shorter \cup {s \o p : s \in shorter, p \in pieces}

---------------------------------------------------------------------------
(* print_git_user_instructions: one diagnostic block.                      *)

print_git_user_instructions == <<"GIT_USER_INSTRUCTIONS">>

---------------------------------------------------------------------------
(* verify_name                                                             *)

forbidden_names ==
    { <<"u","n","k","n","o","w","n">>,
      <<"r","o","o","t">>,
      <<"u","s","e","r">>,
      <<"y","o","u","r"," ","n","a","m","e">> }

\* Mutant: the name is compared without being lower-cased.
verify_name_no_lower(name) ==
    LET n == strip(name) IN
    IF n \in forbidden_names THEN [ret |-> FALSE, out |-> <<>>]
    ELSE IF ~contains(n, <<" ">>)
         THEN [ret |-> TRUE, out |-> <<"WARN_NO_SPACE">> \o print_git_user_instructions]
         ELSE [ret |-> TRUE, out |-> <<>>]

\* Mutant: the no-space warning is issued before the denylist is consulted.
verify_name_warn_first(name) ==
    LET n == strip(lower(name))
        w == IF ~contains(n, <<" ">>)
             THEN <<"WARN_NO_SPACE">> \o print_git_user_instructions
             ELSE <<>>
    IN [ret |-> n \notin forbidden_names, out |-> w]

\* The value returned and the diagnostics printed, in order.
verify_name(name) ==
    LET n == strip(lower(name)) IN
    IF n \in forbidden_names THEN [ret |-> FALSE, out |-> <<>>]
    ELSE IF ~contains(n, <<" ">>)
         THEN [ret |-> TRUE, out |-> <<"WARN_NO_SPACE">> \o print_git_user_instructions]
         ELSE [ret |-> TRUE, out |-> <<>>]

---------------------------------------------------------------------------
(* verify_email                                                            *)

\* Mutant: the top-level label is taken after the first '.', not the last.
verify_email_first_dot(email) ==
    LET e == strip(lower(email))
        parts == split(e, "@", -1)
    IN IF Len(parts) # 2 THEN FALSE
       ELSE LET host == parts[2]
                labels == split(host, ".", -1)
                tld == IF Len(labels) > 1 THEN labels[2] ELSE labels[1]
            IN IF contains(tld, <<"l","o","c","a","l">>) THEN FALSE
               ELSE IF isdigit(tld) THEN FALSE
               ELSE IF endswith(host, <<".","w","i","r","e","s","h","a","r","k",".","o","r","g">>)
                    THEN FALSE
               ELSE IF host = <<"e","x","a","m","p","l","e",".","c","o","m">> THEN FALSE
               ELSE IF contains(host, <<"(","n","o","n","e",")">>) THEN FALSE
               ELSE TRUE

\* The value returned. `user, host = email.split('@')' raises ValueError, which
\* is caught, unless the split yields exactly two parts.
verify_email(email) ==
    LET e == strip(lower(email))
        parts == split(e, "@", -1)
    IN IF Len(parts) # 2 THEN FALSE
       ELSE LET host == parts[2]
                tld == Last(split(host, ".", -1))
            IN IF contains(tld, <<"l","o","c","a","l">>) THEN FALSE
               ELSE IF isdigit(tld) THEN FALSE
               ELSE IF endswith(host, <<".","w","i","r","e","s","h","a","r","k",".","o","r","g">>)
                    THEN FALSE
               ELSE IF host = <<"e","x","a","m","p","l","e",".","c","o","m">> THEN FALSE
               ELSE IF contains(host, <<"(","n","o","n","e",")">>) THEN FALSE
               ELSE TRUE

---------------------------------------------------------------------------
(* extract_subject                                                         *)

prefix == <<"R","e","v","e","r","t"," ","\"">>
suffix == <<"\"">>

\* The while loop: strip one wrapper as long as the string has one.
RECURSIVE unwrap(_)
unwrap(s) ==
    IF startswith(s, prefix) /\ endswith(s, suffix)
    THEN unwrap(Slice(s, Len(prefix), Len(s) - Len(suffix)))
    ELSE s

\* Mutant: `if' instead of `while': one wrapper is stripped at most.
extract_subject_once(subj) ==
    LET s == rstrip(subj, {"\r", "\n"}) IN
    IF startswith(s, prefix) /\ endswith(s, suffix)
    THEN Slice(s, Len(prefix), Len(s) - Len(suffix))
    ELSE s

extract_subject(subj) == unwrap(rstrip(subj, {"\r", "\n"}))

---------------------------------------------------------------------------
(* verify_body                                                             *)

MaxSubjectLen == 80

BugToken == <<"B","u","g",":">>
PingBugToken == <<"P","i","n","g","-","B","u","g",":">>

\* The outcomes of running `git stripspace' on body: OSError when it cannot
\* be run, else its output, which is the body itself or differs from it.
\* git stripspace is not part of this program; only whether its output
\* equals the body is read (the diff text is not modelled).
GsOutcomes(b) ==
    {[err |-> TRUE, newbody |-> <<>>]}
        \cup {[err |-> FALSE, newbody |-> nb] :
                 nb \in {b, b \o <<"\n">>, rstrip(b, {" ", "\n"}) \o <<"\n">>}}

\* What the checks ahead of the issue-reference check print, and is_good.
SubjectChecks(old_lines) ==
    LET no_blank == Len(old_lines) >= 2 /\ strip(old_lines[2]) # <<>>
        too_long == Len(extract_subject(old_lines[1])) > MaxSubjectLen
        is_good == ~no_blank /\ ~too_long
    IN [is_good |-> is_good,
        out |-> (IF no_blank THEN <<"ERROR_MISSING_BLANK_LINE">> ELSE <<>>)
                \o (IF too_long THEN <<"WARNING_80_CHARACTERS">> ELSE <<>>)
                \o (IF ~is_good THEN <<"FORMAT_GUIDANCE">> ELSE <<>>)]

HasIssueToken(old_lines) ==
    \E i \in 1..Len(old_lines) :
        startswith(old_lines[i], BugToken) \/ startswith(old_lines[i], PingBugToken)

\* Mutant: a normalizer output that differs from the body is reported but the
\* earlier verdict is returned.
verify_body_diff_keeps_verdict(b, g) ==
    LET old_lines == splitlines(b) IN
    IF old_lines = <<>>
    THEN [ret |-> FALSE, out |-> <<>>, spawned |-> FALSE, raised |-> "IndexError"]
    ELSE LET c == SubjectChecks(old_lines) IN
         IF HasIssueToken(old_lines)
         THEN [ret |-> FALSE, out |-> c.out \o <<"CLOSING_KEYWORD_GUIDANCE">>,
               spawned |-> FALSE, raised |-> "none"]
         ELSE IF g.err
         THEN [ret |-> c.is_good, out |-> c.out \o <<"WARNING_STRIPSPACE_FAILED">>,
               spawned |-> TRUE, raised |-> "none"]
         ELSE IF g.newbody # b
         THEN [ret |-> c.is_good, out |-> c.out \o <<"REWRITE_NOTICE", "DIFF">>,
               spawned |-> TRUE, raised |-> "none"]
         ELSE [ret |-> c.is_good, out |-> c.out, spawned |-> TRUE, raised |-> "none"]

\* Mutant: the issue-reference check runs first and bypasses the other checks.
verify_body_issue_check_first(b, g) ==
    LET old_lines == splitlines(b) IN
    IF old_lines = <<>>
    THEN [ret |-> FALSE, out |-> <<>>, spawned |-> FALSE, raised |-> "IndexError"]
    ELSE LET c == SubjectChecks(old_lines) IN
         IF HasIssueToken(old_lines)
         THEN [ret |-> FALSE, out |-> <<"CLOSING_KEYWORD_GUIDANCE">>,
               spawned |-> FALSE, raised |-> "none"]
         ELSE IF g.err
         THEN [ret |-> c.is_good, out |-> c.out \o <<"WARNING_STRIPSPACE_FAILED">>,
               spawned |-> TRUE, raised |-> "none"]
         ELSE IF g.newbody # b
         THEN [ret |-> FALSE, out |-> c.out \o <<"REWRITE_NOTICE", "DIFF">>,
               spawned |-> TRUE, raised |-> "none"]
         ELSE [ret |-> c.is_good, out |-> c.out, spawned |-> TRUE, raised |-> "none"]

\* verify_body(body) with g the outcome of `git stripspace': the value
\* returned (ret), the diagnostics printed in order (out), whether Popen was
\* called on the normalizer (spawned), and the exception raised instead of
\* returning ("none" when it returns). old_lines[0] raises IndexError on an
\* empty list.
verify_body(b, g) ==
    LET old_lines == splitlines(b) IN
    IF old_lines = <<>>
    THEN [ret |-> FALSE, out |-> <<>>, spawned |-> FALSE, raised |-> "IndexError"]
    ELSE LET c == SubjectChecks(old_lines) IN
         IF HasIssueToken(old_lines)
         THEN [ret |-> FALSE, out |-> c.out \o <<"CLOSING_KEYWORD_GUIDANCE">>,
               spawned |-> FALSE, raised |-> "none"]
         ELSE IF g.err
         THEN [ret |-> c.is_good, out |-> c.out \o <<"WARNING_STRIPSPACE_FAILED">>,
               spawned |-> TRUE, raised |-> "none"]
         ELSE IF g.newbody # b
         THEN [ret |-> FALSE, out |-> c.out \o <<"REWRITE_NOTICE", "DIFF">>,
               spawned |-> TRUE, raised |-> "none"]
         ELSE [ret |-> c.is_good, out |-> c.out, spawned |-> TRUE, raised |-> "none"]

---------------------------------------------------------------------------
(* Idle values of the variables a specification does not use.              *)

NoCommit == [h |-> <<>>, an |-> <<>>, ae |-> <<>>, B |-> <<>>]
NoRets == [name |-> "none", email |-> "none", body |-> "none"]
NoWrap == [X |-> <<>>, n |-> 0, t |-> <<>>]
NoGs == [err |-> FALSE, newbody |-> <<>>]
NoResult == [ret |-> FALSE, out |-> <<>>]

MainIdle ==
    /\ pc = "idle" /\ direct = FALSE /\ commit = NoCommit /\ query = "pending"
    /\ returncode = 0 /\ output = <<>> /\ abbrev = <<>> /\ author_name = <<>>
    /\ author_email = <<>> /\ body = <<>> /\ subject = <<>> /\ exit_code = 0
    /\ rets = NoRets /\ stdout = <<>> /\ normalizer = FALSE
    /\ term = "running" /\ status = 0 /\ interrupted = FALSE

---------------------------------------------------------------------------
(* verify_name applied to one name.                                        *)

MaxNamePieces == 3

NamePieces ==
    { <<"r","o","o","t">>, <<"R","o","o","t">>, <<"U","S","E","R">>,
      <<"u","n","k","n","o","w","n">>,
      <<"y","o","u","r"," ","n","a","m","e">>,
      <<"Y","o","u","r"," ","N","a","m","e">>,
      <<" ">>, <<"\t">>, <<"x">> }

NameInputs == Concats(NamePieces, MaxNamePieces)

InitName ==
    /\ MainIdle
    /\ upc = "call" /\ arg \in NameInputs
    /\ wrapped = NoWrap /\ gs = NoGs /\ result = NoResult

CallVerifyName ==
    /\ upc = "call"
    /\ result' = verify_name(arg)
    /\ upc' = "returned"
    /\ UNCHANGED <<mainVars, arg, wrapped, gs>>

NextName == CallVerifyName

SpecName == InitName /\ [][NextName]_vars

\* The name is a denylisted name up to letter case and surrounding whitespace:
\* some stretch of it lower-cases to a denylisted name and all the rest is
\* whitespace.
Denylisted(name) ==
    \E d \in forbidden_names : \E i \in 1..(Len(name) + 1) :
        LET j == i + Len(d) - 1 IN
        /\ j <= Len(name)
        /\ lower(SubSeq(name, i, j)) = d
        /\ \A k \in 1..(i-1) : IsSpace(name[k])
        /\ \A k \in (j+1)..Len(name) : IsSpace(name[k])

\* The normalized name has no space character.
NoSpace(name) == LET n == strip(lower(name)) IN \A i \in 1..Len(n) : n[i] # " "

\* C2: verify_name returns false exactly for the names that, lower-cased and
\* trimmed, are one of "unknown", "root", "user", "your name"; every other
\* name (one that only contains a denylisted word, the empty name) is accepted.
C2_DenylistExact ==
    upc = "returned" => (result.ret = FALSE <=> Denylisted(arg))

\* C2 witness: a name rejected only thanks to the normalization (" USER ").
C2_Witness ==
    /\ upc = "returned"
    /\ arg = <<" ", "U","S","E","R", " ">>
    /\ result.ret = FALSE

\* C7 as stated: the no-space warning is printed for every name whose
\* normalized form has no space, and for no other name.
C7_WarnsEveryNoSpaceName ==
    upc = "returned" =>
        ("WARN_NO_SPACE" \in Range(result.out) <=> NoSpace(arg))

\* C7 amended: the warning, followed by the identity instructions, is printed
\* exactly for the names whose normalized form has no space and is not
\* denylisted; nothing else is printed; and the result is decided by the
\* denylist alone, whether or not the warning was printed.
C7_WarnsAcceptedNoSpaceName ==
    upc = "returned" =>
        /\ result.out = IF NoSpace(arg) /\ ~Denylisted(arg)
                        THEN <<"WARN_NO_SPACE", "GIT_USER_INSTRUCTIONS">>
                        ELSE <<>>
        /\ result.ret = ~Denylisted(arg)

\* C7 witness: a name without a space is accepted with the warning printed.
C7_Witness ==
    /\ upc = "returned"
    /\ arg = <<"x">>
    /\ result.ret = TRUE
    /\ result.out = <<"WARN_NO_SPACE", "GIT_USER_INSTRUCTIONS">>

---------------------------------------------------------------------------
(* verify_email applied to one address.                                    *)

MaxEmailPieces == 4

EmailPieces ==
    { <<"a", "@">>, <<"@">>, <<".">>, <<"a">>, <<"1">>, <<" ">>,
      <<"l","o","c","a","l">>,
      <<"(","n","o","n","e",")">>,
      <<".","w","i","r","e","s","h","a","r","k",".","o","r","g">>,
      <<"E","x","a","m","p","l","e",".","C","O","M">> }

EmailInputs == Concats(EmailPieces, MaxEmailPieces)

InitEmail ==
    /\ MainIdle
    /\ upc = "call" /\ arg \in EmailInputs
    /\ wrapped = NoWrap /\ gs = NoGs /\ result = NoResult

CallVerifyEmail ==
    /\ upc = "call"
    /\ result' = [ret |-> verify_email(arg), out |-> <<>>]
    /\ upc' = "returned"
    /\ UNCHANGED <<mainVars, arg, wrapped, gs>>

NextEmail == CallVerifyEmail

SpecEmail == InitEmail /\ [][NextEmail]_vars

\* The positions of character c in s.
Positions(s, c) == {i \in 1..Len(s) : s[i] = c}

\* The part of a one-'@' address after its '@'.
HostOf(e) == SubSeq(e, (CHOOSE i \in Positions(e, "@") : TRUE) + 1, Len(e))

\* The substring of host after its last '.', the whole host when it has none.
TldOf(host) ==
    LET dots == Positions(host, ".")
        from == IF dots = {} THEN 1
                ELSE (CHOOSE i \in dots : \A j \in dots : j <= i) + 1
    IN SubSeq(host, from, Len(host))

\* The address, lower-cased and trimmed, has one '@' and none of the five
\* rejected shapes.
Acceptable(email) ==
    LET e == strip(lower(email)) IN
    /\ Cardinality(Positions(e, "@")) = 1
    /\ LET host == HostOf(e)
           tld == TldOf(host)
       IN /\ ~contains(tld, <<"l","o","c","a","l">>)
          /\ ~(tld # <<>> /\ \A i \in 1..Len(tld) : tld[i] \in Digits)
          /\ ~endswith(host, <<".","w","i","r","e","s","h","a","r","k",".","o","r","g">>)
          /\ host # <<"e","x","a","m","p","l","e",".","c","o","m">>
          /\ ~contains(host, <<"(","n","o","n","e",")">>)

\* C3: verify_email returns true exactly for the addresses that, lower-cased
\* and trimmed, hold exactly one '@' and whose host (after the '@') and tld
\* (after the host's last '.') have none of: tld contains "local", tld is
\* non-empty and all digits, host ends with ".wireshark.org", host is
\* "example.com", host contains "(none)".
C3_EmailAcceptedIff ==
    upc = "returned" => (result.ret = Acceptable(arg))

\* C3 witness: an address whose last label alone decides ("a@local.a" is
\* accepted although an earlier label is "local").
C3_Witness ==
    /\ upc = "returned"
    /\ arg = <<"a", "@">> \o <<"l","o","c","a","l">> \o <<".">> \o <<"a">>
    /\ result.ret = TRUE

---------------------------------------------------------------------------
(* extract_subject applied to one subject line.                            *)

MaxSubjectPieces == 3
MaxDepth == 2
MaxTail == 2

SubjectPieces == { prefix, suffix, <<"a">>, <<" ">>, <<"\n">> }

SubjectTexts == Concats(SubjectPieces, MaxSubjectPieces)

Tails == Concats({<<"\r">>, <<"\n">>}, MaxTail)

\* X inside n revert wrappers.
RECURSIVE Wrap(_, _)
Wrap(n, X) == IF n = 0 THEN X ELSE prefix \o Wrap(n - 1, X) \o suffix

InitSubject ==
    /\ MainIdle
    /\ upc = "call"
    /\ wrapped \in [X : SubjectTexts, n : 0..MaxDepth, t : Tails]
    /\ arg = Wrap(wrapped.n, wrapped.X) \o wrapped.t
    /\ gs = NoGs /\ result = NoResult

CallExtractSubject ==
    /\ upc = "call"
    /\ result' = [ret |-> extract_subject(arg), out |-> <<>>]
    /\ upc' = "returned"
    /\ UNCHANGED <<mainVars, arg, wrapped, gs>>

NextSubject == CallExtractSubject

SpecSubject == InitSubject /\ [][NextSubject]_vars

\* s both starts with 'Revert "' and ends with '"'.
IsWrapper(s) ==
    /\ Len(s) >= Len(prefix) /\ \A i \in 1..Len(prefix) : s[i] = prefix[i]
    /\ s[Len(s)] = "\""

\* X has no trailing CR/LF and is not itself a revert wrapper.
PlainSubject(X) ==
    /\ X = <<>> \/ X[Len(X)] \notin {"\r", "\n"}
    /\ ~IsWrapper(X)

\* C6: for a text X without trailing CR/LF that is not itself a wrapper,
\* extract_subject of X inside n wrappers followed by a run t of CR/LF is X;
\* and no result of extract_subject is a wrapper.
C6_UnwrapsCompletely ==
    upc = "returned" =>
        /\ PlainSubject(wrapped.X) => result.ret = wrapped.X
        /\ ~IsWrapper(result.ret)

\* C6 witness: a double wrapper followed by CR LF is unwrapped to its text.
C6_Witness ==
    /\ upc = "returned"
    /\ wrapped = [X |-> <<"a">>, n |-> 2, t |-> <<"\r", "\n">>]
    /\ result.ret = <<"a">>

---------------------------------------------------------------------------
(* verify_body applied to one message body.                                *)

MaxBodyPieces == 4

\* A run of characters half as long as the longest subject allowed.
Filler == [i \in 1..(MaxSubjectLen \div 2) |-> "x"]

BodyPieces ==
    { Filler, <<"x">>, <<" ">>, <<"\n">>, BugToken, PingBugToken, prefix, suffix }

BodyInputs == Concats(BodyPieces, MaxBodyPieces)

InitBody ==
    /\ MainIdle
    /\ upc = "call" /\ arg \in BodyInputs
    /\ wrapped = NoWrap /\ gs = NoGs /\ result = NoResult

CallVerifyBody ==
    /\ upc = "call"
    /\ \E g \in GsOutcomes(arg) :
        /\ gs' = g
        /\ result' = verify_body(arg, g)
    /\ upc' = "returned"
    /\ UNCHANGED <<mainVars, arg, wrapped>>

NextBody == CallVerifyBody

SpecBody == InitBody /\ [][NextBody]_vars

\* The lines of a body, each with its line end.
Lines(b) == splitlines(b)

\* The second line is absent or blank.
BlankAfterSubject(b) ==
    Len(Lines(b)) < 2 \/ \A i \in 1..Len(Lines(b)[2]) : IsSpace(Lines(b)[2][i])

\* The first line, without revert wrappers, has at most 80 characters.
SubjectFits(b) == Len(extract_subject(Lines(b)[1])) <= MaxSubjectLen

\* Some line starts with "Bug:" or "Ping-Bug:".
HasIssueLine(b) ==
    \E i \in 1..Len(Lines(b)) :
        \E tok \in {BugToken, PingBugToken} :
            Len(Lines(b)[i]) >= Len(tok) /\ SubSeq(Lines(b)[i], 1, Len(tok)) = tok

\* C4: for a non-empty body verify_body returns, and returns true exactly
\* when the second line is absent or blank, the unwrapped first line has at
\* most 80 characters, no line starts with "Bug:" or "Ping-Bug:", and the
\* normalizer could not be run or returned the body unchanged. A differing
\* normalizer output gives false; a normalizer that cannot be run leaves the
\* verdict of the blank-line and length checks.
C4_BodyAcceptedIff ==
    (upc = "returned" /\ arg # <<>>) =>
        /\ result.raised = "none"
        /\ result.ret = ( /\ BlankAfterSubject(arg)
                          /\ SubjectFits(arg)
                          /\ ~HasIssueLine(arg)
                          /\ (gs.err \/ gs.newbody = arg) )
        /\ (~HasIssueLine(arg) /\ ~gs.err /\ gs.newbody # arg) => result.ret = FALSE
        /\ (~HasIssueLine(arg) /\ gs.err) =>
               result.ret = (BlankAfterSubject(arg) /\ SubjectFits(arg))

\* C4 witness: a reverted commit whose unwrapped subject is exactly 80
\* characters passes when the normalizer returns the body unchanged.
C4_Witness ==
    /\ upc = "returned"
    /\ arg = prefix \o Filler \o Filler \o suffix
    /\ ~gs.err /\ gs.newbody = arg
    /\ result.ret = TRUE

\* C5 as stated: a body with a "Bug:" or "Ping-Bug:" line prints the
\* closing-keyword guidance and nothing else, and the normalizer is not run.
C5_IssueLineBypassesDiagnostics ==
    (upc = "returned" /\ HasIssueLine(arg)) =>
        /\ result.out = <<"CLOSING_KEYWORD_GUIDANCE">>
        /\ ~result.spawned

\* C5 amended: a body with a "Bug:" or "Ping-Bug:" line fails with the
\* closing-keyword guidance printed last, the normalizer is not run and no
\* normalization diff is printed; but the checks ahead of it have run: the
\* missing-blank-line error, the 80-character warning and the format
\* guidance are printed before it whenever the body fails those checks.
C5_IssueLineSkipsNormalizerOnly ==
    (upc = "returned" /\ HasIssueLine(arg)) =>
        /\ result.ret = FALSE
        /\ ~result.spawned
        /\ result.out =
              (IF ~BlankAfterSubject(arg) THEN <<"ERROR_MISSING_BLANK_LINE">> ELSE <<>>)
              \o (IF ~SubjectFits(arg) THEN <<"WARNING_80_CHARACTERS">> ELSE <<>>)
              \o (IF ~BlankAfterSubject(arg) \/ ~SubjectFits(arg)
                  THEN <<"FORMAT_GUIDANCE">> ELSE <<>>)
              \o <<"CLOSING_KEYWORD_GUIDANCE">>

\* C5 witness: an issue line right after the subject: the blank-line error is
\* printed ahead of the closing-keyword guidance.
C5_Witness ==
    /\ upc = "returned"
    /\ arg = <<"x", "\n">> \o BugToken
    /\ result.out = <<"ERROR_MISSING_BLANK_LINE", "FORMAT_GUIDANCE",
                      "CLOSING_KEYWORD_GUIDANCE">>
    /\ ~result.spawned

---------------------------------------------------------------------------
(* main() and the __main__ block.                                          *)

LF == <<"\n">>

\* What `git show --no-patch --format=%h%n%an%n%ae%n%B' prints for a commit:
\* the four fields, a line feed after each.
GitShowFormat(c) == c.h \o LF \o c.an \o LF \o c.ae \o LF \o c.B \o LF

\* Exit codes of a failing `git show'.
GitFailCodes == {1, 128}

\* The parts main() unpacks into abbrev, author_name, author_email, body.
ParseOutput(o) ==
    LET kept == IF endswith(o, LF \o LF) THEN Slice(o, 0, Len(o) - 1) ELSE o
    IN split(kept, "\n", 3)

MainNames ==
    { <<"r","o","o","t">>, <<"j","d","o","e">>, <<"J","a","n","e"," ","D","o","e">> }

MainEmails ==
    { <<"a","@","b",".","l","o","c","a","l">>,
      <<"d","e","v","@","r","e","a","l","m","a","i","l",".","o","r","g">> }

MainBodies ==
    { <<>>,
      <<"x">>,
      <<"x", "\n">>,
      <<"x", "\n", "\n", "y", "\n">>,
      <<"x", "\n", "y", "\n">>,
      <<"x", "\n", "\n">> \o BugToken \o <<" ", "1", "\n">>,
      Filler \o Filler \o <<"x", "\n">> }

Commits == [h : {<<"a","1","b","2">>}, an : MainNames, ae : MainEmails, B : MainBodies]

Init ==
    /\ pc = "start"
    /\ direct \in BOOLEAN
    /\ commit \in Commits
    /\ query = "pending" /\ returncode = 0 /\ output = <<>>
    /\ abbrev = <<>> /\ author_name = <<>> /\ author_email = <<>>
    /\ body = <<>> /\ subject = <<>>
    /\ exit_code = 0 /\ rets = NoRets /\ stdout = <<>> /\ normalizer = FALSE
    /\ term = "running" /\ status = 0 /\ interrupted = FALSE
    /\ upc = "unused" /\ arg = <<>> /\ wrapped = NoWrap /\ gs = NoGs
    /\ result = NoResult

\* subprocess.check_output returns git's output.
GitShowOk ==
    /\ pc = "start"
    /\ output' = GitShowFormat(commit)
    /\ query' = "ok"
    /\ pc' = "parse"
    /\ UNCHANGED <<direct, commit, returncode, abbrev, author_name, author_email,
                   body, subject, exit_code, rets, stdout, normalizer, term,
                   status, interrupted, unitVars>>

\* git exits non-zero: check_output raises CalledProcessError out of main().
GitShowFails ==
    /\ pc = "start"
    /\ \E rc \in GitFailCodes : returncode' = rc
    /\ query' = "failed"
    /\ pc' = "except_CalledProcessError"
    /\ UNCHANGED <<direct, commit, output, abbrev, author_name, author_email,
                   body, subject, exit_code, rets, stdout, normalizer, term,
                   status, interrupted, unitVars>>

\* Drop the additional LF, unpack the four fields, take the subject, print
\* the commit being checked. Unpacking other than four parts raises
\* ValueError, which nothing catches.
Parse ==
    /\ pc = "parse"
    /\ LET parts == ParseOutput(output) IN
       IF Len(parts) # 4
       THEN /\ term' = "traceback" /\ status' = 1 /\ pc' = "done"
            /\ UNCHANGED <<abbrev, author_name, author_email, body, subject, stdout>>
       ELSE /\ abbrev' = parts[1]
            /\ author_name' = parts[2]
            /\ author_email' = parts[3]
            /\ body' = parts[4]
            /\ subject' = split(parts[4], "\n", 1)[1]
            /\ stdout' = IF direct THEN stdout \o <<"CHECKING_COMMIT">> ELSE stdout
            /\ pc' = "verify_name"
            /\ UNCHANGED <<term, status>>
    /\ UNCHANGED <<direct, commit, query, returncode, output, exit_code, rets,
                   normalizer, interrupted, unitVars>>

VerifyName ==
    /\ pc = "verify_name"
    /\ LET r == verify_name(author_name) IN
        /\ rets' = [rets EXCEPT !.name = IF r.ret THEN "true" ELSE "false"]
        /\ stdout' = stdout \o r.out
                        \o (IF r.ret THEN <<>> ELSE <<"DISALLOWED_AUTHOR_NAME">>)
        /\ exit_code' = IF r.ret THEN exit_code ELSE 1
    /\ pc' = "verify_email"
    /\ UNCHANGED <<direct, commit, query, returncode, output, abbrev, author_name,
                   author_email, body, subject, normalizer, term, status,
                   interrupted, unitVars>>

VerifyEmail ==
    /\ pc = "verify_email"
    /\ LET r == verify_email(author_email) IN
        /\ rets' = [rets EXCEPT !.email = IF r THEN "true" ELSE "false"]
        /\ stdout' = stdout \o (IF r THEN <<>> ELSE <<"DISALLOWED_AUTHOR_EMAIL">>)
        /\ exit_code' = IF r THEN exit_code ELSE 1
    /\ pc' = "instructions"
    /\ UNCHANGED <<direct, commit, query, returncode, output, abbrev, author_name,
                   author_email, body, subject, normalizer, term, status,
                   interrupted, unitVars>>

\* if exit_code: print_git_user_instructions()
Instructions ==
    /\ pc = "instructions"
    /\ stdout' = IF exit_code # 0 THEN stdout \o print_git_user_instructions
                 ELSE stdout
    /\ pc' = "verify_body"
    /\ UNCHANGED <<direct, commit, query, returncode, output, abbrev, author_name,
                   author_email, body, subject, exit_code, rets, normalizer, term,
                   status, interrupted, unitVars>>

\* verify_body(body); an exception it raises leaves main() and the __main__
\* block uncaught: the interpreter prints the traceback and exits with 1.
VerifyBody ==
    /\ pc = "verify_body"
    /\ \E g \in GsOutcomes(body) :
        LET r == verify_body(body, g) IN
        /\ stdout' = stdout \o r.out
        /\ normalizer' = r.spawned
        /\ IF r.raised # "none"
           THEN /\ rets' = [rets EXCEPT !.body = "raised"]
                /\ term' = "traceback" /\ status' = 1 /\ pc' = "done"
                /\ UNCHANGED exit_code
           ELSE /\ rets' = [rets EXCEPT !.body = IF r.ret THEN "true" ELSE "false"]
                /\ exit_code' = IF r.ret THEN exit_code ELSE 1
                /\ pc' = "return"
                /\ UNCHANGED <<term, status>>
    /\ UNCHANGED <<direct, commit, query, returncode, output, abbrev, author_name,
                   author_email, body, subject, interrupted, unitVars>>

\* return exit_code; sys.exit(main())
Return ==
    /\ pc = "return"
    /\ term' = "exit" /\ status' = exit_code % 256
    /\ pc' = "done"
    /\ UNCHANGED <<direct, commit, query, returncode, output, abbrev, author_name,
                   author_email, body, subject, exit_code, rets, stdout, normalizer,
                   interrupted, unitVars>>

\* except subprocess.CalledProcessError: print it, sys.exit(ex.returncode)
HandleCalledProcessError ==
    /\ pc = "except_CalledProcessError"
    /\ stdout' = stdout \o <<"CALLED_PROCESS_ERROR">>
    /\ term' = "exit" /\ status' = returncode % 256
    /\ pc' = "done"
    /\ UNCHANGED <<direct, commit, query, returncode, output, abbrev, author_name,
                   author_email, body, subject, exit_code, rets, normalizer,
                   interrupted, unitVars>>

InTry == {"start", "parse", "verify_name", "verify_email", "instructions",
          "verify_body", "return"}

\* A KeyboardInterrupt raised while sys.exit(main()) runs:
\* except KeyboardInterrupt: sys.exit(130)
KeyboardInterrupt ==
    /\ pc \in InTry
    /\ interrupted' = TRUE
    /\ term' = "exit" /\ status' = 130
    /\ pc' = "done"
    /\ UNCHANGED <<direct, commit, query, returncode, output, abbrev, author_name,
                   author_email, body, subject, exit_code, rets, stdout, normalizer,
                   unitVars>>

\* A KeyboardInterrupt raised inside the CalledProcessError handler: the
\* except clauses of a try statement do not guard one another, so it is
\* uncaught. The interpreter prints the traceback and exits with 1, or (from
\* Python 3.8 on) kills itself with SIGINT, which a shell reports as 130.
KeyboardInterruptInHandler ==
    /\ pc = "except_CalledProcessError"
    /\ interrupted' = TRUE
    /\ \/ term' = "traceback" /\ status' = 1
       \/ term' = "signal" /\ status' = 130
    /\ pc' = "done"
    /\ UNCHANGED <<direct, commit, query, returncode, output, abbrev, author_name,
                   author_email, body, subject, exit_code, rets, stdout, normalizer,
                   unitVars>>

Next ==
    \/ GitShowOk
    \/ GitShowFails
    \/ Parse
    \/ VerifyName
    \/ VerifyEmail
    \/ Instructions
    \/ VerifyBody
    \/ Return
    \/ HandleCalledProcessError
    \/ KeyboardInterrupt
    \/ KeyboardInterruptInHandler

Spec == Init /\ [][Next]_vars

\* The run ended, the git query had succeeded and no interrupt was raised.
Finished == term # "running" /\ query = "ok" /\ ~interrupted

AllPassed == rets.name = "true" /\ rets.email = "true" /\ rets.body = "true"

\* C1: when the git query succeeds, main() runs the three validators
\* whatever the earlier ones returned, and returns 0 if all three returned
\* true and 1 otherwise.
C1_MainReturnsZeroIffAllPass ==
    Finished =>
        /\ rets.name # "none" /\ rets.email # "none" /\ rets.body # "none"
        /\ term = "exit"
        /\ status = IF AllPassed THEN 0 ELSE 1

\* C8: a failing git query ends the run before any validator is called, with
\* git's exit code as the exit status; a keyboard interrupt at any point of
\* the run ends the process with exit status 130.
C8_QueryFailureAndInterrupt ==
    term # "running" =>
        /\ (query = "failed" /\ ~interrupted) =>
               (rets = NoRets /\ term = "exit" /\ status = returncode)
        /\ interrupted => (term = "exit" /\ status = 130)

\* C9: once the output is parsed, the four fields are those of the commit
\* record, the body character for character.
C9_ParseRecoversRecord ==
    pc \in {"verify_name", "verify_email", "instructions", "verify_body", "return"} =>
        /\ abbrev = commit.h
        /\ author_name = commit.an
        /\ author_email = commit.ae
        /\ body = commit.B

\* C10: for every record of a successful query verify_body returns a boolean
\* and the run ends by main() returning 0 or 1.
C10_ValidationTotal ==
    Finished =>
        /\ rets.body \in {"true", "false"}
        /\ term = "exit"
        /\ status \in {0, 1}

====
